---- MODULE Spec2Model ----
(***************************************************************************)
(* CST816S touch controller driver: the register access layer generated    *)
(* from the register table of device.rs, the PulseWidth and Gesture        *)
(* conversions, and the facade operations of lib.rs (event, read_chip_id), *)
(* run against a touch controller that updates its registers and its       *)
(* interrupt line on its own, between bus transactions.                     *)
(*                                                                         *)
(* Specifications:                                                         *)
(*   Spec       the sampling facade, the bus and the live hardware;        *)
(*   SpecCodec  the conversions alone, applied to every 8-bit input;       *)
(*   SpecPair   the position registers read over every pair of bytes;     *)
(*   SpecDevice the register access layer over every declared register;   *)
(*   SpecConfig the reset, configuration and chip-id calls of the facade;  *)
(*   SpecCalls  event() called repeatedly under a caller that keeps the    *)
(*              outcome of an earlier call.                                *)
(***************************************************************************)
EXTENDS Integers, Sequences, FiniteSets

VARIABLES
    regs,           \* hardware register file: address -> byte
    irq,            \* level of the interrupt line: "Low" (asserted) or "High"
    pc,             \* position of the caller inside the facade
    int_pin_value,  \* level the running (or last) call read from interrupt_pin
    reads,          \* event(): the Results x, y, b0, b1, gesture read so far
    busLog,         \* bus transactions issued by the running (or last) call
    ret,            \* outcome of the last completed call
    snaps,          \* register files the hardware held during the running (or last) event()
    debug_assertions, \* build profile: are debug_assert! checks compiled in
    cin,            \* SpecCodec, SpecPair: the 8-bit input
    cin2,           \* SpecPair: the second 8-bit input
    cop,            \* SpecCodec: the conversion applied to it
    cout,           \* SpecCodec: its outcome
    busResult,      \* what the transport reported for the last transaction of the call
    pinLog,         \* reset(): what the running (or last) call did on reset_pin and delay
    pulse_width,    \* the PulseWidth the caller holds (NoPulseWidth: none)
    cfg,            \* the controller's configuration registers: address -> byte
    device_address, \* the 7-bit bus address the session was constructed with
    kept,           \* what the caller kept of the event() call before the last one
    configured      \* register contents left by the successful init_config calls

vars == <<regs, irq, pc, int_pin_value, reads, busLog, ret, snaps,
          debug_assertions, cin, cin2, cop, cout, busResult, pinLog,
          pulse_width, cfg, device_address, kept, configured>>

facadeVars == <<regs, irq, pc, int_pin_value, reads, busLog, ret, snaps>>
codecVars == <<cin, cin2, cop, cout>>
configVars == <<pinLog, pulse_width, cfg>>
sessionVars == <<device_address, kept, configured>>

-----------------------------------------------------------------------------
(* Register table (device.rs, create_device!)                              *)

\* mutant of Xpos: the field `value` taken as all 16 bits
XposAllBits == [address |-> 3, size_bits |-> 16, lo |-> 0, hi |-> 16, order |-> "BE"]

\* mutant of XposH: the whole byte taken as the value
XposHUnmasked == [address |-> 3, size_bits |-> 8, lo |-> 0, hi |-> 8, order |-> "LE"]

\* address, width in bits, and the bit range [lo, hi) of the field `value`
GestureId == [address |-> 1, size_bits |-> 8, lo |-> 0, hi |-> 8, order |-> "LE"]
XposH == [address |-> 3, size_bits |-> 8, lo |-> 0, hi |-> 4, order |-> "LE"]
XposL == [address |-> 4, size_bits |-> 8, lo |-> 0, hi |-> 8, order |-> "LE"]
Xpos == [address |-> 3, size_bits |-> 16, lo |-> 0, hi |-> 12, order |-> "BE"]
YposH == [address |-> 5, size_bits |-> 8, lo |-> 0, hi |-> 4, order |-> "LE"]
YposL == [address |-> 6, size_bits |-> 8, lo |-> 0, hi |-> 8, order |-> "LE"]
\* mutant of Ypos: the address copied from Xpos
YposAtXposAddress == [address |-> 3, size_bits |-> 16, lo |-> 0, hi |-> 12, order |-> "BE"]
Ypos == [address |-> 5, size_bits |-> 16, lo |-> 0, hi |-> 12, order |-> "BE"]
BPC0H == [address |-> 176, size_bits |-> 8, lo |-> 0, hi |-> 8, order |-> "LE"]
BPC0L == [address |-> 177, size_bits |-> 8, lo |-> 0, hi |-> 8, order |-> "LE"]
BPC1H == [address |-> 178, size_bits |-> 8, lo |-> 0, hi |-> 8, order |-> "LE"]
BPC1L == [address |-> 179, size_bits |-> 8, lo |-> 0, hi |-> 8, order |-> "LE"]
\* the 16-bit calibration channels event() reads with bpc_0() and bpc_1()
BPC0 == [address |-> 176, size_bits |-> 16, lo |-> 0, hi |-> 16, order |-> "BE"]
BPC1 == [address |-> 178, size_bits |-> 16, lo |-> 0, hi |-> 16, order |-> "BE"]
ChipId == [address |-> 167, size_bits |-> 8, lo |-> 0, hi |-> 8, order |-> "LE"]
IrqPulseWidth == [address |-> 237, size_bits |-> 8, lo |-> 0, hi |-> 8, order |-> "LE"]

\* mutant of IrqCtl: OnceWLP declared one bit higher
IrqCtlShifted == [address |-> 250, size_bits |-> 8, reset |-> 0,
                  bits |-> [OnceWLP |-> 1, EnMotion |-> 4, EnChange |-> 5, EnTouch |-> 6,
                            EnTest |-> 7]]

\* registers written by init_config: address, width, reset value (0 where none
\* is declared), and the bit of each named flag
IrqCtl == [address |-> 250, size_bits |-> 8, reset |-> 0,
           bits |-> [OnceWLP |-> 0, EnMotion |-> 4, EnChange |-> 5, EnTouch |-> 6,
                     EnTest |-> 7]]
MotionMask == [address |-> 236, size_bits |-> 3, reset |-> 0,
               bits |-> [EnDClick |-> 0, EnConUD |-> 1, EnConLR |-> 2]]
DisAutoSleep == [address |-> 254, size_bits |-> 8, lo |-> 0, hi |-> 8, order |-> "LE",
                 reset |-> 0]
NorScanPer == [address |-> 238, size_bits |-> 8, lo |-> 0, hi |-> 8, order |-> "LE",
               reset |-> 1]
IrqPulseWidthReset == 10

\* mutant of DeepSleep: no reset value declared
DeepSleepNoReset == [address |-> 229, size_bits |-> 8, lo |-> 0, hi |-> 8, order |-> "LE",
                     reset |-> 0]

\* further registers of the table
FingerNum == [address |-> 2, size_bits |-> 8, lo |-> 0, hi |-> 1, order |-> "LE"]
ProjId == [address |-> 168, size_bits |-> 8, lo |-> 0, hi |-> 8, order |-> "LE"]
FwVersion == [address |-> 169, size_bits |-> 8, lo |-> 0, hi |-> 8, order |-> "LE"]
DeepSleep == [address |-> 229, size_bits |-> 8, lo |-> 0, hi |-> 8, order |-> "LE",
              reset |-> 3]
IOCtl == [address |-> 253, size_bits |-> 3, reset |-> 0,
          bits |-> [En1v8 |-> 0, IIC_OD |-> 1, SOFT_RST |-> 2]]

\* one row of the register table. access: "RO" where the register declares
\* type Access = RO, else the default "RW"; reset: RESET_VALUE, else 0;
\* [lo, hi): the bits of the field `value` (of all flags, for a flag register)
Row(address, size_bits, lo, hi, order, access, reset) ==
    [address |-> address, size_bits |-> size_bits, lo |-> lo, hi |-> hi,
     order |-> order, access |-> access, reset |-> reset]
ReadOnlyRow(reg) == Row(reg.address, reg.size_bits, reg.lo, reg.hi, reg.order, "RO", 0)
ValueRow(reg, reset) ==
    Row(reg.address, reg.size_bits, reg.lo, reg.hi, reg.order, "RW", reset)
FlagsRow(reg) == Row(reg.address, reg.size_bits, 0, reg.size_bits, "LE", "RW", reg.reset)

\* the registers create_device! declares, by name
RegisterTable ==
    [GestureId |-> ReadOnlyRow(GestureId),
     FingerNum |-> ReadOnlyRow(FingerNum),
     XposH |-> ReadOnlyRow(XposH),
     XposL |-> ReadOnlyRow(XposL),
     Xpos |-> ReadOnlyRow(Xpos),
     YposH |-> ReadOnlyRow(YposH),
     YposL |-> ReadOnlyRow(YposL),
     Ypos |-> ReadOnlyRow(Ypos),
     BPC0H |-> ReadOnlyRow(BPC0H),
     BPC0L |-> ReadOnlyRow(BPC0L),
     BPC1H |-> ReadOnlyRow(BPC1H),
     BPC1L |-> ReadOnlyRow(BPC1L),
     ChipId |-> ReadOnlyRow(ChipId),
     ProjId |-> ReadOnlyRow(ProjId),
     FwVersion |-> ReadOnlyRow(FwVersion),
     DeepSleep |-> ValueRow(DeepSleep, DeepSleep.reset),
     MotionMask |-> FlagsRow(MotionMask),
     IrqPulseWidth |-> ValueRow(IrqPulseWidth, IrqPulseWidthReset),
     NorScanPer |-> ValueRow(NorScanPer, NorScanPer.reset),
     MotionSlAngle |-> Row(239, 8, 0, 8, "LE", "RW", 0),
     LpScanRaw1H |-> Row(240, 8, 0, 8, "LE", "RW", 0),
     LpScanRaw1L |-> Row(241, 8, 0, 8, "LE", "RW", 0),
     LpScanRaw2H |-> Row(242, 8, 0, 8, "LE", "RW", 0),
     LpScanRaw2L |-> Row(243, 8, 0, 8, "LE", "RW", 0),
     LpAutoWakeTime |-> Row(244, 3, 0, 3, "LE", "RW", 5),
     LpScanTH |-> Row(245, 8, 0, 8, "LE", "RW", 48),
     LpScanWin |-> Row(246, 2, 0, 2, "LE", "RW", 3),
     LpScanFreq |-> Row(247, 8, 0, 8, "LE", "RW", 7),
     LpScanIdac |-> Row(248, 8, 0, 8, "LE", "RW", 0),
     AutoSleepTime |-> Row(249, 8, 0, 8, "LE", "RW", 2),
     IrqCtl |-> FlagsRow(IrqCtl),
     AutoReset |-> Row(251, 8, 0, 8, "LE", "RW", 0),
     LongPressTime |-> Row(252, 8, 0, 8, "LE", "RW", 10),
     IOCtl |-> FlagsRow(IOCtl),
     DisAutoSleep |-> ValueRow(DisAutoSleep, DisAutoSleep.reset)]

\* enum Gesture: the declared raw codes and their variants
GestureCodes == {0, 1, 2, 3, 4, 5, 11, 12}

GestureVariant(code) ==
    CASE code = 0 -> "NoGesture"
      [] code = 1 -> "SlideUp"
      [] code = 2 -> "SlideDown"
      [] code = 3 -> "SlideLeft"
      [] code = 4 -> "SlideRight"
      [] code = 5 -> "SingleClick"
      [] code = 11 -> "DoubleClick"
      [] code = 12 -> "LongPress"

-----------------------------------------------------------------------------
(* Result values                                                           *)

NoError == [wrapper |-> "none", inner |-> "none"]

Ok(v) == [ok |-> TRUE, value |-> v, err |-> NoError]
Err(e) == [ok |-> FALSE, value |-> 0, err |-> e]
NotRead == [ok |-> FALSE, value |-> 0, err |-> [wrapper |-> "none", inner |-> "not read"]]

\* mutant of DeviceError: every bus error reported as one and the same
DeviceErrorLossy(e) == [wrapper |-> "DeviceError", inner |-> "NoAcknowledge"]

\* struct DeviceError<I2c>(pub I2c), built by From<I2c>: wraps the bus error as it is
DeviceError(e) == [wrapper |-> "DeviceError", inner |-> e]

-----------------------------------------------------------------------------
(* Byte and bit arithmetic of the generated accessors                      *)

ByteRange == 0..255

\* mutant of ByteLen: the bit width rounded down to whole bytes
ByteLenFloor(size_bits) == size_bits \div 8

\* number of bytes a register of size_bits bits occupies on the bus
ByteLen(size_bits) == (size_bits + 7) \div 8

\* mutant of IntBE: the two bytes taken low byte first
RECURSIVE IntBytesReversed(_)
IntBytesReversed(bytes) ==
    IF bytes = <<>> THEN 0
    ELSE bytes[1] + 256 * IntBytesReversed(Tail(bytes))

\* the integer a register's bytes stand for, first byte first on the bus
RECURSIVE IntBE(_)
IntBE(bytes) ==
    IF bytes = <<>> THEN 0
    ELSE IntBE(SubSeq(bytes, 1, Len(bytes) - 1)) * 256 + bytes[Len(bytes)]

RECURSIVE IntLE(_)
IntLE(bytes) ==
    IF bytes = <<>> THEN 0
    ELSE bytes[1] + 256 * IntLE(Tail(bytes))

RegisterInt(reg, bytes) ==
    IF reg.order = "BE" THEN IntBE(bytes) ELSE IntLE(bytes)

\* bits [lo, hi) of raw, as an unsigned integer
LoadBits(raw, lo, hi) == (raw \div (2 ^ lo)) % (2 ^ (hi - lo))

\* the field `value` of a register whose bytes were read from the bus
FieldValue(reg, bytes) == LoadBits(RegisterInt(reg, bytes), reg.lo, reg.hi)

\* raw with the bits [lo, hi) set to v (v truncated to the field's width)
StoreBits(raw, lo, hi, v) ==
    raw - LoadBits(raw, lo, hi) * (2 ^ lo) + (v % (2 ^ (hi - lo))) * (2 ^ lo)

-----------------------------------------------------------------------------
(* Bus transport and DeviceInterface                                       *)

\* set_<flag>(bool) on a flag register: the named bits stored into raw
SetFlags(raw, bits, flags) ==
    LET BitOf(b) ==
            IF \E f \in DOMAIN flags : bits[f] = b
            THEN IF flags[CHOOSE f \in DOMAIN flags : bits[f] = b] THEN 1 ELSE 0
            ELSE (raw \div (2 ^ b)) % 2
    IN BitOf(0) + 2 * BitOf(1) + 4 * BitOf(2) + 8 * BitOf(3) + 16 * BitOf(4)
       + 32 * BitOf(5) + 64 * BitOf(6) + 128 * BitOf(7)

\* errors the I2C transport may report
BusErrors == {"NoAcknowledge", "ArbitrationLoss"}

\* mutant of HwBytes: the first byte taken in an earlier bus cycle than the
\* rest, from a state the controller held before
TornBytes(r, address, len) ==
    [i \in 1..len |->
        IF i = 1 THEN (CHOOSE s \in snaps \cup {r} : TRUE)[address]
        ELSE r[address + i - 1]]

\* mutant of HwBytes: the buffer answered from a zeroed copy, not from the bus
CachedBytes(r, address, len) == [i \in 1..len |-> 0]

\* the bytes the controller answers to write_read(device_address, [address], data)
HwBytes(r, address, len) == [i \in 1..len |-> r[address + i - 1]]

\* DeviceInterface::read_register: one write_read; `?` converts the bus error
\* into DeviceError. outcome is "ok" or the bus error.
read_register(r, address, size_bits, outcome) ==
    IF outcome = "ok"
    THEN Ok(HwBytes(r, address, ByteLen(size_bits)))
    ELSE Err(DeviceError(outcome))

\* mutant of WriteTransaction: the address and the data sent as two bus writes
WriteTwoWrites(address, data) ==
    <<[kind |-> "write", address |-> address, len |-> 1, data |-> <<address>>],
      [kind |-> "write", address |-> address, len |-> Len(data), data |-> data]>>

\* the transaction write_register puts on the bus: one i2c.transaction of
\* Operation::Write(&[address]) followed by Operation::Write(data)
WriteTransaction(address, data) ==
    <<[kind |-> "transaction", address |-> address, len |-> Len(data), data |-> data]>>

\* DeviceInterface::write_register: `?` converts the bus error into DeviceError
write_register(address, data, outcome) ==
    IF outcome = "ok" THEN Ok(0) ELSE Err(DeviceError(outcome))

\* mutant of HwStore: the byte merged into what the register held
HwStoreMerged(c, address, data, outcome) ==
    IF outcome = "ok" THEN [c EXCEPT ![address] = (c[address] + data[1]) % 256]
    ELSE c

\* what the controller holds after the transaction: the byte stored when the
\* transaction was acknowledged
HwStore(c, address, data, outcome) ==
    IF outcome = "ok" THEN [c EXCEPT ![address] = data[1]] ELSE c

\* the transaction read_register puts on the bus
ReadTransaction(address, size_bits) ==
    [kind |-> "write_read", address |-> address, len |-> ByteLen(size_bits)]

\* device.<register>().read(): the register's bytes, or the interface's error
RegisterRead(reg, r, outcome) ==
    read_register(r, reg.address, reg.size_bits, outcome)

\* <field set>.value() of a register read
Value(reg, res) == FieldValue(reg, res.value)

\* the typed read used by the facade: read()?.value() with the error kept
TypedRead(reg, r, outcome) ==
    LET res == RegisterRead(reg, r, outcome)
    IN IF res.ok THEN Ok(Value(reg, res)) ELSE res

-----------------------------------------------------------------------------
(* Conversions                                                             *)

\* mutant of GestureTryFrom: an undeclared code defaulted to NoGesture
GestureFromOrDefault(code) ==
    IF code \in GestureCodes
    THEN [ok |-> TRUE, variant |-> GestureVariant(code)]
    ELSE [ok |-> TRUE, variant |-> "NoGesture"]

\* `uint as try enum Gesture`: TryFrom<u8>, an error for an undeclared code
GestureTryFrom(code) ==
    IF code \in GestureCodes
    THEN [ok |-> TRUE, variant |-> GestureVariant(code)]
    ELSE [ok |-> FALSE, variant |-> "ConversionError"]

\* a PulseWidth { value }, or the panic of a failed assertion
PwOk(v) == [kind |-> "PulseWidth", value |-> v]
PwPanic == [kind |-> "panic", value |-> 0]
NoPulseWidth == [kind |-> "none", value |-> 0]

\* impl DerefMut for PulseWidth: `*p = v` stores into the private field
DerefMutAssign(p, v) == [p EXCEPT !.value = v]

\* PulseWidth::new: the range is checked by debug_assert! only
PulseWidthNew(value, debug) ==
    IF debug /\ ~(value > 0) THEN PwPanic
    ELSE IF debug /\ ~(value <= 200) THEN PwPanic
    ELSE PwOk(value)

\* impl From<u8> for PulseWidth: the range is checked by assert!
PulseWidthFrom(value) ==
    IF ~(value > 0) THEN PwPanic
    ELSE IF ~(value <= 200) THEN PwPanic
    ELSE PwOk(value)

\* mutant of U8FromPulseWidth: the value stored in tenths, one less than given
U8FromPulseWidthOffByOne(pw) == (pw.value + 255) % 256

\* impl From<PulseWidth> for u8: *value
U8FromPulseWidth(pw) == pw.value

\* the byte set_value(pw) leaves in the IrqPulseWidth write buffer (reset value 10
\* overwritten on bits 0..8)
IrqPulseWidthEncode(pw) ==
    StoreBits(IrqPulseWidthReset, IrqPulseWidth.lo, IrqPulseWidth.hi, U8FromPulseWidth(pw))

\* value() of an IrqPulseWidth read: the field converted with From<u8>
IrqPulseWidthDecode(byte) ==
    PulseWidthFrom(FieldValue(IrqPulseWidth, <<byte>>))

-----------------------------------------------------------------------------
(* The touch controller                                                    *)

\* addresses of the registers the facade reads
RegAddrs == {GestureId.address, XposH.address, XposL.address, YposH.address,
             YposL.address, BPC0H.address, BPC0L.address, BPC1H.address,
             BPC1L.address, ChipId.address}

\* touch samples the controller holds, as <<gesture, XposH, XposL, YposH, YposL,
\* BPC0H, BPC0L, BPC1H, BPC1L>>: they differ from one another in X, in Y and in
\* the gesture; sample 1 is the test vector of tests::read_xpos, sample 3 has the
\* upper four bits of the high position bytes set, sample 4 has a gesture byte
\* that is no declared code
TouchSample(n) ==
    CASE n = 1 -> <<5, 1, 2, 0, 32, 18, 52, 86, 120>>
      [] n = 2 -> <<0, 3, 48, 2, 64, 0, 0, 255, 255>>
      [] n = 3 -> <<12, 242, 255, 159, 128, 171, 205, 1, 0>>
      [] n = 4 -> <<13, 15, 80, 14, 96, 18, 52, 86, 120>>
      [] n = 5 -> <<11, 0, 0, 15, 255, 0, 1, 2, 3>>
      [] OTHER -> <<n % 6, n % 16, (7 * n) % 256, (3 * n) % 16, (11 * n) % 256,
                    n % 256, (2 * n) % 256, (3 * n) % 256, (5 * n) % 256>>

\* the chip id the controller reports
ChipIdBytes == {35, 180}

RegFile(sample, id) ==
    [a \in RegAddrs |->
        CASE a = GestureId.address -> sample[1]
          [] a = XposH.address -> sample[2]
          [] a = XposL.address -> sample[3]
          [] a = YposH.address -> sample[4]
          [] a = YposL.address -> sample[5]
          [] a = BPC0H.address -> sample[6]
          [] a = BPC0L.address -> sample[7]
          [] a = BPC1H.address -> sample[8]
          [] a = BPC1L.address -> sample[9]
          [] a = ChipId.address -> id]

\* the configuration registers init_config and set_irq_pulse_width write
ConfigAddrs == {IrqCtl.address, MotionMask.address, DisAutoSleep.address,
                IrqPulseWidth.address, NorScanPer.address}

\* what they hold after power-up: the declared reset values
ResetValues ==
    [a \in ConfigAddrs |->
        CASE a = IrqCtl.address -> IrqCtl.reset
          [] a = MotionMask.address -> MotionMask.reset
          [] a = DisAutoSleep.address -> DisAutoSleep.reset
          [] a = IrqPulseWidth.address -> IrqPulseWidthReset
          [] a = NorScanPer.address -> NorScanPer.reset]

\* the touch samples the controller moves between
TouchSamples == 1..4

\* bus failures the transport injects into one facade call, at most
MaxBusFailures == 1

\* touch samples the controller may move to during one facade call, at most
MaxHwUpdates == 1

\* what a register file holds, by the register table's documentation: 12-bit
\* coordinates (4 high bits, 8 low bits) and the gesture byte
SnapX(r) == (r[XposH.address] % 16) * 256 + r[XposL.address]
SnapY(r) == (r[YposH.address] % 16) * 256 + r[YposL.address]
SnapGesture(r) == r[GestureId.address]

-----------------------------------------------------------------------------
(* Facade state                                                            *)

NoReads == [x |-> NotRead, y |-> NotRead, b0 |-> NotRead, b1 |-> NotRead,
            gesture |-> NotRead]

NoPoint == <<0, 0>>

\* Option<TouchEvent>, Option<u8>, or the panic that ended the call
RetNothing == [op |-> "none", kind |-> "none", point |-> NoPoint, bpc0 |-> 0,
               bpc1 |-> 0, gesture |-> "none", value |-> 0, err |-> NoError]
RetNone(op) == [RetNothing EXCEPT !.op = op, !.kind = "None"]
RetPanic(op) == [RetNothing EXCEPT !.op = op, !.kind = "panic"]
\* Result<(), E>
RetOk(op) == [RetNothing EXCEPT !.op = op, !.kind = "Ok"]
RetErr(op, e) == [RetNothing EXCEPT !.op = op, !.kind = "Err", !.err = e]
RetSomeU8(op, v) == [RetNothing EXCEPT !.op = op, !.kind = "Some", !.value = v]
RetSomeEvent(point, bpc0, bpc1, gesture) ==
    [RetNothing EXCEPT !.op = "event", !.kind = "Some", !.point = point,
                       !.bpc0 = bpc0, !.bpc1 = bpc1, !.gesture = gesture]

\* mutants of is_high and is_low: the polarity taken the wrong way round
is_high_inverted(level) == level = "Low"
is_low_inverted(level) == level = "High"

\* embedded_hal InputPin on the interrupt line
is_high(level) == level = "High"
is_low(level) == level = "Low"

BusOutcomes == {"ok"} \cup BusErrors

-----------------------------------------------------------------------------
(* Initial state                                                           *)

Init ==
    /\ \E n \in TouchSamples, id \in ChipIdBytes : regs = RegFile(TouchSample(n), id)
    /\ irq \in {"Low", "High"}
    /\ pc = "idle"
    /\ int_pin_value = "High"
    /\ reads = NoReads
    /\ busLog = <<>>
    /\ ret = RetNothing
    /\ snaps = {}
    /\ debug_assertions \in BOOLEAN
    /\ cin = 0
    /\ cin2 = 0
    /\ cop = "none"
    /\ cout = PwPanic
    /\ busResult = "none"
    /\ pinLog = <<>>
    /\ pulse_width = NoPulseWidth
    /\ cfg = ResetValues
    /\ device_address = 21
    /\ kept = "none"
    /\ configured = <<>>

-----------------------------------------------------------------------------
(* Hardware steps: the controller runs on its own between bus transactions *)

\* is the caller inside event(), between its pin check and its return
InEvent == pc \in {"xpos", "ypos", "bpc0", "bpc1", "gesture", "aggregate"}

\* bus failures the running call has met
Failures(rd) ==
    Cardinality({f \in DOMAIN rd : rd[f].err.wrapper = "DeviceError"})

\* a new touch sample replaces position, gesture and calibration registers
HwUpdate ==
    /\ pc # "panicked"
    /\ \E n \in TouchSamples :
        /\ regs' = RegFile(TouchSample(n), regs[ChipId.address])
        /\ regs' # regs
    /\ IF InEvent
       THEN /\ Cardinality(snaps) <= MaxHwUpdates
            /\ snaps' = snaps \cup {regs'}
       ELSE snaps' = snaps
    /\ UNCHANGED <<irq, pc, int_pin_value, reads, busLog, ret,
                   debug_assertions, codecVars, sessionVars, busResult, configVars>>

\* the controller pulses its interrupt line low, or releases it
HwIrq ==
    /\ pc # "panicked"
    /\ irq' = IF irq = "Low" THEN "High" ELSE "Low"
    /\ UNCHANGED <<regs, pc, int_pin_value, reads, busLog, ret, snaps,
                   debug_assertions, codecVars, sessionVars, busResult, configVars>>

-----------------------------------------------------------------------------
(* CST816S::event                                                          *)

\* if self.interrupt_pin.is_high().unwrap() { return None; }
EventCheckPin ==
    /\ pc = "idle"
    /\ int_pin_value' = irq
    /\ busLog' = <<>>
    /\ reads' = NoReads
    /\ snaps' = {regs}
    /\ IF is_high(irq)
       THEN /\ pc' = "idle"
            /\ ret' = RetNone("event")
       ELSE /\ pc' = "xpos"
            /\ ret' = RetNothing
    /\ busResult' = "none"
    /\ UNCHANGED <<regs, irq, debug_assertions, codecVars, sessionVars, configVars>>

\* mutant of EventRead: a failed read ends the reading at once
EventReadAborting(at, next, field, reg) ==
    /\ pc = at
    /\ \E outcome \in BusOutcomes :
        /\ outcome # "ok" => Failures(reads) < MaxBusFailures
        /\ reads' = [reads EXCEPT ![field] = TypedRead(reg, regs, outcome)]
        /\ busResult' = outcome
        /\ pc' = IF outcome = "ok" THEN next ELSE "aggregate"
    /\ busLog' = Append(busLog, ReadTransaction(reg.address, reg.size_bits))
    /\ UNCHANGED <<regs, irq, int_pin_value, ret, snaps, debug_assertions, codecVars,
                   sessionVars, configVars>>

\* let <field> = self.device.<register>().read();  one step per bus transaction
EventRead(at, next, field, reg) ==
    /\ pc = at
    /\ \E outcome \in BusOutcomes :
        /\ outcome # "ok" => Failures(reads) < MaxBusFailures
        /\ reads' = [reads EXCEPT ![field] = TypedRead(reg, regs, outcome)]
        /\ busResult' = outcome
    /\ busLog' = Append(busLog, ReadTransaction(reg.address, reg.size_bits))
    /\ pc' = next
    /\ UNCHANGED <<regs, irq, int_pin_value, ret, snaps, debug_assertions, codecVars, sessionVars,
                   configVars>>

EventReadXpos == EventRead("xpos", "ypos", "x", Xpos)
EventReadYpos == EventRead("ypos", "bpc0", "y", Ypos)
EventReadBpc0 == EventRead("bpc0", "bpc1", "b0", BPC0)
EventReadBpc1 == EventRead("bpc1", "gesture", "b1", BPC1)
EventReadGesture == EventRead("gesture", "aggregate", "gesture", GestureId)

\* mutant of EventOutcome: the gesture hard-coded instead of decoded
EventOutcomeFixedGesture(rd) ==
    IF ~rd.x.ok \/ ~rd.y.ok \/ ~rd.gesture.ok \/ ~rd.b0.ok \/ ~rd.b1.ok
    THEN RetNone("event")
    ELSE RetSomeEvent(<<rd.x.value, rd.y.value>>, rd.b0.value, rd.b1.value,
                      "SingleClick")

\* mutant of EventOutcome: gesture.is_err() left out of the aggregation
EventOutcomeUncheckedGesture(rd) ==
    IF ~rd.x.ok \/ ~rd.y.ok \/ ~rd.b0.ok \/ ~rd.b1.ok
    THEN RetNone("event")
    ELSE IF ~rd.gesture.ok
         THEN RetPanic("event")
         ELSE LET gesture == GestureTryFrom(rd.gesture.value)
              IN IF ~gesture.ok
                 THEN RetPanic("event")
                 ELSE RetSomeEvent(<<rd.x.value, rd.y.value>>, rd.b0.value,
                                   rd.b1.value, gesture.variant)

\* mutant of EventOutcome: a failure of an earlier call remembered, and no
\* event given after it
EventOutcomeSticky(rd) ==
    IF kept = "failed" \/ ~rd.x.ok \/ ~rd.y.ok \/ ~rd.gesture.ok \/ ~rd.b0.ok \/ ~rd.b1.ok
    THEN RetNone("event")
    ELSE LET gesture == GestureTryFrom(rd.gesture.value)
         IN IF ~gesture.ok
            THEN RetPanic("event")
            ELSE RetSomeEvent(<<rd.x.value, rd.y.value>>, rd.b0.value,
                              rd.b1.value, gesture.variant)

\* the outcome of event() once the five reads are done:
\*   if x.is_err() || y.is_err() || gesture.is_err() || b0.is_err() || b1.is_err()
\*       { return None; }
\*   ... gesture.unwrap().value().unwrap() ... Some(TouchEvent { .. })
EventOutcome(rd) ==
    IF ~rd.x.ok \/ ~rd.y.ok \/ ~rd.gesture.ok \/ ~rd.b0.ok \/ ~rd.b1.ok
    THEN RetNone("event")
    ELSE LET gesture == GestureTryFrom(rd.gesture.value)
         IN IF ~gesture.ok
            THEN RetPanic("event")
            ELSE RetSomeEvent(<<rd.x.value, rd.y.value>>, rd.b0.value,
                              rd.b1.value, gesture.variant)

EventReturn ==
    /\ pc = "aggregate"
    /\ ret' = EventOutcome(reads)
    /\ pc' = IF ret'.kind = "panic" THEN "panicked" ELSE "idle"
    /\ UNCHANGED <<regs, irq, int_pin_value, reads, busLog, snaps,
                   debug_assertions, codecVars, sessionVars, busResult, configVars>>

-----------------------------------------------------------------------------
(* CST816S::read_chip_id                                                   *)

\* let int_pin_value = self.interrupt_pin.is_low().unwrap();
\* if int_pin_value { .. } else { None }
ReadChipIdCheckPin ==
    /\ pc = "idle"
    /\ int_pin_value' = irq
    /\ busLog' = <<>>
    /\ reads' = NoReads
    /\ snaps' = {}
    /\ IF is_low(irq)
       THEN /\ pc' = "chip_id"
            /\ ret' = RetNothing
       ELSE /\ pc' = "idle"
            /\ ret' = RetNone("read_chip_id")
    /\ busResult' = "none"
    /\ UNCHANGED <<regs, irq, debug_assertions, codecVars, sessionVars, configVars>>

\* Some(self.device.chip_id().read().unwrap().value())
ChipIdOutcome(res) ==
    IF res.ok THEN RetSomeU8("read_chip_id", res.value)
    ELSE RetPanic("read_chip_id")

ReadChipIdRead ==
    /\ pc = "chip_id"
    /\ \E outcome \in BusOutcomes :
        /\ ret' = ChipIdOutcome(TypedRead(ChipId, regs, outcome))
        /\ busResult' = outcome
    /\ busLog' = Append(busLog, ReadTransaction(ChipId.address, ChipId.size_bits))
    /\ pc' = IF ret'.kind = "panic" THEN "panicked" ELSE "idle"
    /\ UNCHANGED <<regs, irq, int_pin_value, reads, snaps, debug_assertions, codecVars, sessionVars,
                   configVars>>

-----------------------------------------------------------------------------
(* The facade against the hardware                                         *)

Next ==
    \/ HwUpdate
    \/ HwIrq
    \/ EventCheckPin
    \/ EventReadXpos
    \/ EventReadYpos
    \/ EventReadBpc0
    \/ EventReadBpc1
    \/ EventReadGesture
    \/ EventReturn
    \/ ReadChipIdCheckPin
    \/ ReadChipIdRead

Spec == Init /\ [][Next]_vars

-----------------------------------------------------------------------------
(* The conversions alone: every 8-bit input, both build profiles           *)

InitCodec ==
    /\ regs = RegFile(TouchSample(1), 35)
    /\ irq = "High"
    /\ pc = "idle"
    /\ int_pin_value = "High"
    /\ reads = NoReads
    /\ busLog = <<>>
    /\ ret = RetNothing
    /\ snaps = {}
    /\ debug_assertions \in BOOLEAN
    /\ cin \in ByteRange
    /\ cin2 = 0
    /\ cop = "none"
    /\ cout = PwPanic
    /\ busResult = "none"
    /\ pinLog = <<>>
    /\ pulse_width = NoPulseWidth
    /\ cfg = ResetValues
    /\ device_address = 21
    /\ kept = "none"
    /\ configured = <<>>

\* PulseWidth::new(cin)
CodecPulseWidthNew ==
    /\ cop = "none"
    /\ cop' = "new"
    /\ cout' = PulseWidthNew(cin, debug_assertions)
    /\ UNCHANGED <<facadeVars, debug_assertions, cin, cin2, busResult, configVars,
                   sessionVars>>

\* PulseWidth::from(cin)
CodecPulseWidthFrom ==
    /\ cop = "none"
    /\ cop' = "from"
    /\ cout' = PulseWidthFrom(cin)
    /\ UNCHANGED <<facadeVars, debug_assertions, cin, cin2, busResult, configVars,
                   sessionVars>>

\* irq_pulse_width().write(|m| m.set_value(pw)): the byte stored in the register
CodecEncode ==
    /\ cop \in {"new", "from"}
    /\ cout.kind = "PulseWidth"
    /\ cop' = "encoded"
    /\ cout' = [kind |-> "byte", value |-> IrqPulseWidthEncode(cout)]
    /\ UNCHANGED <<facadeVars, debug_assertions, cin, cin2, busResult, configVars,
                   sessionVars>>

\* irq_pulse_width().read().value() of the stored byte
CodecDecode ==
    /\ cop = "encoded"
    /\ cop' = "decoded"
    /\ cout' = IrqPulseWidthDecode(cout.value)
    /\ UNCHANGED <<facadeVars, debug_assertions, cin, cin2, busResult, configVars,
                   sessionVars>>

\* gesture_id().read().value() of a register holding cin
CodecGesture ==
    /\ cop = "none"
    /\ cop' = "gesture"
    /\ cout' = LET g == GestureTryFrom(FieldValue(GestureId, <<cin>>))
               IN [kind |-> IF g.ok THEN g.variant ELSE "ConversionError",
                   value |-> 0]
    /\ UNCHANGED <<facadeVars, debug_assertions, cin, cin2, busResult, configVars,
                   sessionVars>>

\* irq_pulse_width().read().value() of a register holding cin: the bus read
\* succeeded and the field is converted with From<u8>
CodecReadPulseWidth ==
    /\ cop = "none"
    /\ cop' = "read_pulse_width"
    /\ cout' = IrqPulseWidthDecode(cin)
    /\ UNCHANGED <<facadeVars, debug_assertions, cin, cin2, busResult, configVars,
                   sessionVars>>

NextCodec ==
    \/ CodecPulseWidthNew
    \/ CodecPulseWidthFrom
    \/ CodecEncode
    \/ CodecDecode
    \/ CodecGesture
    \/ CodecReadPulseWidth

SpecCodec == InitCodec /\ [][NextCodec]_vars

-----------------------------------------------------------------------------
(* The position registers alone: every pair of bytes at adjacent addresses *)

InitPair ==
    /\ regs = RegFile(TouchSample(1), 35)
    /\ irq = "High"
    /\ pc = "idle"
    /\ int_pin_value = "High"
    /\ reads = NoReads
    /\ busLog = <<>>
    /\ ret = RetNothing
    /\ snaps = {}
    /\ debug_assertions = FALSE
    /\ cin \in ByteRange
    /\ cin2 \in ByteRange
    /\ cop = "none"
    /\ cout = PwPanic
    /\ busResult = "none"
    /\ pinLog = <<>>
    /\ pulse_width = NoPulseWidth
    /\ cfg = ResetValues
    /\ device_address = 21
    /\ kept = "none"
    /\ configured = <<>>

\* the three typed reads of tests::read_xpos on registers holding cin at the
\* address of the high register and cin2 at the next one
PairRead(name, high, low, composite) ==
    /\ cop = "none"
    /\ cop' = name
    /\ LET r == [regs EXCEPT ![high.address] = cin, ![low.address] = cin2]
       IN cout' = [kind |-> "pair",
                   value |-> <<TypedRead(high, r, "ok").value,
                               TypedRead(low, r, "ok").value,
                               TypedRead(composite, r, "ok").value>>]
    /\ UNCHANGED <<facadeVars, debug_assertions, cin, cin2, busResult, configVars,
                   sessionVars>>

PairReadX == PairRead("xpos", XposH, XposL, Xpos)
PairReadY == PairRead("ypos", YposH, YposL, Ypos)

NextPair ==
    \/ PairReadX
    \/ PairReadY

SpecPair == InitPair /\ [][NextPair]_vars

-----------------------------------------------------------------------------
(* The register access layer alone: each declared register read and written *)

\* bytes the controller may hold at the register's address and at the next one
DeviceBytes == {0, 1, 2, 3, 10, 113, 242, 255}

\* bus addresses a session may be constructed with: the one of the tests, and another
DeviceAddresses == {21, 90}

InitDevice ==
    /\ regs = RegFile(TouchSample(1), 35)
    /\ irq = "High"
    /\ pc = "idle"
    /\ int_pin_value = "High"
    /\ reads = NoReads
    /\ busLog = <<>>
    /\ ret = RetNothing
    /\ snaps = {}
    /\ debug_assertions = FALSE
    /\ cin \in DeviceBytes
    /\ cin2 \in DeviceBytes
    /\ cop = "none"
    /\ cout = PwPanic
    /\ busResult = "none"
    /\ pinLog = <<>>
    /\ pulse_width = NoPulseWidth
    /\ cfg = ResetValues
    /\ device_address \in DeviceAddresses
    /\ kept = "none"
    /\ configured = <<>>

\* the controller holding cin at a register's address and cin2 at the next one
HwAt(address) ==
    [a \in 0..256 |-> IF a = address THEN cin ELSE IF a = address + 1 THEN cin2 ELSE 0]

\* what one typed access did: the register, the bus outcome, the device address
\* (self.device_address) the transaction went to, the transaction,
\* the data bytes sent, and the Result with the field `value` of a read
Access(name, outcome, log, sent, result, field) ==
    [kind |-> "access",
     value |-> [name |-> name, outcome |-> outcome, device |-> device_address,
                log |-> log, sent |-> sent, result |-> result, field |-> field]]

\* device.<register>().read(), and value() of what it returned
DeviceRead ==
    /\ cop = "none"
    /\ cop' = "read"
    /\ \E name \in DOMAIN RegisterTable, outcome \in BusOutcomes :
        LET reg == RegisterTable[name]
            res == RegisterRead(reg, HwAt(reg.address), outcome)
        IN cout' = Access(name, outcome,
                          <<ReadTransaction(reg.address, reg.size_bits)>>, <<>>,
                          [ok |-> res.ok, err |-> res.err],
                          IF res.ok THEN Value(reg, res) ELSE 0)
    /\ UNCHANGED <<facadeVars, debug_assertions, cin, cin2, busResult, configVars,
                   sessionVars>>

\* device.<register>().write(|w| ()): the register's reset value is sent.
\* Only a register that is not read-only has a write method.
DeviceWriteDefault ==
    /\ cop = "none"
    /\ cop' = "write"
    /\ \E name \in DOMAIN RegisterTable, outcome \in BusOutcomes :
        LET reg == RegisterTable[name]
            data == <<reg.reset>>
            res == write_register(reg.address, data, outcome)
        IN /\ reg.access # "RO"
           /\ cout' = Access(name, outcome, WriteTransaction(reg.address, data), data,
                             [ok |-> res.ok, err |-> res.err], 0)
    /\ UNCHANGED <<facadeVars, debug_assertions, cin, cin2, busResult, configVars,
                   sessionVars>>

\* device.<register>().write(|w| w.set_value(cin)) on a register whose field
\* `value` is a whole byte
DeviceWriteValue ==
    /\ cop = "none"
    /\ cop' = "write"
    /\ \E name \in DOMAIN RegisterTable, outcome \in BusOutcomes :
        LET reg == RegisterTable[name]
            data == <<StoreBits(reg.reset, reg.lo, reg.hi, cin)>>
            res == write_register(reg.address, data, outcome)
        IN /\ reg.access # "RO"
           /\ reg.hi - reg.lo = 8
           /\ cout' = Access(name, outcome, WriteTransaction(reg.address, data), data,
                             [ok |-> res.ok, err |-> res.err], 0)
    /\ UNCHANGED <<facadeVars, debug_assertions, cin, cin2, busResult, configVars,
                   sessionVars>>

\* the registers made of named bool flags
FlagRegisters == [IrqCtl |-> IrqCtl, MotionMask |-> MotionMask, IOCtl |-> IOCtl]

\* device.<flag register>().write(|w| { w.set_<flag>(b); .. }) for any choice of
\* flags the closure sets and of the values it gives them
DeviceWriteFlags ==
    /\ cop = "none"
    /\ cop' = "write_flags"
    /\ \E name \in DOMAIN FlagRegisters, outcome \in BusOutcomes :
        LET reg == FlagRegisters[name]
        IN \E set \in SUBSET DOMAIN reg.bits :
            \E flags \in [set -> BOOLEAN] :
                LET data == <<SetFlags(reg.reset, reg.bits, flags)>>
                    res == write_register(reg.address, data, outcome)
                IN cout' = Access(name, outcome, WriteTransaction(reg.address, data),
                                  data, [ok |-> res.ok, err |-> res.err],
                                  {f \in set : flags[f]})
    /\ UNCHANGED <<facadeVars, debug_assertions, cin, cin2, busResult, configVars,
                   sessionVars>>

NextDevice ==
    \/ DeviceRead
    \/ DeviceWriteDefault
    \/ DeviceWriteValue
    \/ DeviceWriteFlags

SpecDevice == InitDevice /\ [][NextDevice]_vars

-----------------------------------------------------------------------------
(* CST816S::reset, init_config, set_irq_pulse_width and their caller       *)

\* pulse widths the caller tries: below, at the ends of and above 1..200
PulseInputs == {0, 1, 200, 201}

\* what the reset pin may report on set_high / set_low
PinOutcomes == {"ok", "PinError"}

\* one entry of pinLog
PinSet(level, outcome) == [op |-> level, ms |-> 0, ok |-> outcome = "ok"]
PinDelay(ms) == [op |-> "delay_ms", ms |-> ms, ok |-> TRUE]

\* TPRST::Error, returned by `?` as it is
PinError(e) == [wrapper |-> "none", inner |-> e]

\* contents of the configuration registers when the session starts: the reset
\* values of the table, or every bit set (left by an earlier owner of the chip)
PowerOnContents == {ResetValues, [a \in ConfigAddrs |-> 255]}

ConfigInit ==
    /\ \E id \in ChipIdBytes : regs = RegFile(TouchSample(1), id)
    /\ irq \in {"Low", "High"}
    /\ pc = "idle"
    /\ int_pin_value = "High"
    /\ reads = NoReads
    /\ busLog = <<>>
    /\ ret = RetNothing
    /\ snaps = {}
    /\ debug_assertions \in BOOLEAN
    /\ cin = 0
    /\ cin2 = 0
    /\ cop = "none"
    /\ cout = PwPanic
    /\ busResult = "none"
    /\ pinLog = <<>>
    /\ pulse_width = NoPulseWidth
    /\ cfg \in PowerOnContents
    /\ device_address = 21
    /\ kept = "none"
    /\ configured = <<>>

\* mutant of ResetStep: the delay made also after a pin write that failed
ResetStepDelayAfterFailure(at, next, level, ms) ==
    /\ pc = at
    /\ \E outcome \in PinOutcomes :
        LET log == IF at = "idle" THEN <<>> ELSE pinLog
        IN /\ pinLog' = log \o <<PinSet(level, outcome), PinDelay(ms)>>
           /\ pc' = IF outcome = "ok" THEN next ELSE "idle"
           /\ ret' = IF outcome # "ok" THEN RetErr("reset", PinError(outcome))
                     ELSE IF next = "idle" THEN RetOk("reset") ELSE RetNothing
    /\ busLog' = IF at = "idle" THEN <<>> ELSE busLog
    /\ busResult' = IF at = "idle" THEN "none" ELSE busResult
    /\ UNCHANGED <<regs, irq, int_pin_value, reads, snaps, debug_assertions,
                   codecVars, sessionVars, pulse_width, cfg>>

\* self.reset_pin.set_<level>()?; delay.delay_ms(ms);   one step per pin write
ResetStep(at, next, level, ms) ==
    /\ pc = at
    /\ \E outcome \in PinOutcomes :
        LET log == IF at = "idle" THEN <<>> ELSE pinLog
        IN IF outcome = "ok"
           THEN /\ pinLog' = log \o <<PinSet(level, outcome), PinDelay(ms)>>
                /\ pc' = next
                /\ ret' = IF next = "idle" THEN RetOk("reset") ELSE RetNothing
           ELSE /\ pinLog' = Append(log, PinSet(level, outcome))
                /\ pc' = "idle"
                /\ ret' = RetErr("reset", PinError(outcome))
    /\ busLog' = IF at = "idle" THEN <<>> ELSE busLog
    /\ busResult' = IF at = "idle" THEN "none" ELSE busResult
    /\ UNCHANGED <<regs, irq, int_pin_value, reads, snaps, debug_assertions,
                   codecVars, sessionVars, pulse_width, cfg>>

ResetSetHigh == ResetStep("idle", "reset_low", "set_high", 50)
ResetSetLow == ResetStep("reset_low", "reset_high", "set_low", 5)
ResetRelease == ResetStep("reset_high", "idle", "set_high", 50)

\* mutant of IrqCtlByte: the test pulse left enabled
IrqCtlByteWithTest ==
    SetFlags(IrqCtl.reset, IrqCtl.bits,
             [EnTest |-> TRUE, EnTouch |-> TRUE, OnceWLP |-> TRUE,
              EnChange |-> TRUE, EnMotion |-> TRUE])

\* the bytes init_config writes, each built by write(|w| ..) from the reset value
IrqCtlByte ==
    SetFlags(IrqCtl.reset, IrqCtl.bits,
             [EnTest |-> FALSE, EnTouch |-> TRUE, OnceWLP |-> TRUE,
              EnChange |-> TRUE, EnMotion |-> TRUE])
MotionMaskByte ==
    SetFlags(MotionMask.reset, MotionMask.bits,
             [EnDClick |-> TRUE, EnConLR |-> TRUE, EnConUD |-> TRUE])
DisAutoSleepByte == StoreBits(DisAutoSleep.reset, DisAutoSleep.lo, DisAutoSleep.hi, 254)
NorScanPerByte == StoreBits(NorScanPer.reset, NorScanPer.lo, NorScanPer.hi, 1)

\* mutant of AfterWrite: the batch carried on after a failed write
AfterWriteNoAbort(res, next) == next

\* the `?` after each write of init_config: an Err leaves the function
AfterWrite(res, next) == IF res.ok THEN next ELSE "idle"

\* the contents recorded when a call of init_config returns Ok: those of the
\* first such call and those of the latest one
Recorded(done, c) ==
    IF ~done THEN configured
    ELSE IF configured = <<>> THEN <<c>>
    ELSE <<configured[1], c>>

\* self.device.<register>().write(|w| ..)?;   one step per bus transaction
ConfigWrite(at, next, address, byte) ==
    /\ pc = at
    /\ \E outcome \in BusOutcomes :
        LET res == write_register(address, <<byte>>, outcome)
        IN /\ busResult' = outcome
           /\ cfg' = HwStore(cfg, address, <<byte>>, outcome)
           /\ pc' = AfterWrite(res, next)
           /\ ret' = IF pc' # "idle" THEN RetNothing
                     ELSE IF res.ok THEN RetOk("init_config")
                     ELSE RetErr("init_config", res.err)
           /\ configured' = Recorded(pc' = "idle" /\ res.ok, cfg')
    /\ busLog' = (IF at = "idle" THEN <<>> ELSE busLog) \o WriteTransaction(address, <<byte>>)
    /\ pinLog' = IF at = "idle" THEN <<>> ELSE pinLog
    /\ UNCHANGED <<regs, irq, int_pin_value, reads, snaps, debug_assertions,
                   codecVars, device_address, kept, pulse_width>>

InitConfigIrqCtl == ConfigWrite("idle", "motion_mask", IrqCtl.address, IrqCtlByte)
InitConfigMotionMask ==
    ConfigWrite("motion_mask", "dis_auto_sleep", MotionMask.address, MotionMaskByte)
InitConfigDisAutoSleep ==
    ConfigWrite("dis_auto_sleep", "irq_pulse_width", DisAutoSleep.address, DisAutoSleepByte)
InitConfigIrqPulseWidth ==
    ConfigWrite("irq_pulse_width", "nor_scan_per", IrqPulseWidth.address,
                IrqPulseWidthEncode(PulseWidthNew(1, debug_assertions)))
InitConfigNorScanPer ==
    ConfigWrite("nor_scan_per", "idle", NorScanPer.address, NorScanPerByte)

\* the caller builds a PulseWidth: PulseWidth::new(v)
CallerPulseWidthNew ==
    /\ pc = "idle"
    /\ \E v \in PulseInputs :
        LET res == PulseWidthNew(v, debug_assertions)
        IN IF res.kind = "panic"
           THEN /\ pc' = "panicked"
                /\ ret' = RetPanic("PulseWidth::new")
                /\ UNCHANGED pulse_width
           ELSE /\ pulse_width' = res
                /\ UNCHANGED <<pc, ret>>
    /\ UNCHANGED <<regs, irq, int_pin_value, reads, busLog, snaps, debug_assertions,
                   codecVars, sessionVars, busResult, pinLog, cfg>>

\* the caller builds a PulseWidth: PulseWidth::from(v)
CallerPulseWidthFrom ==
    /\ pc = "idle"
    /\ \E v \in PulseInputs :
        LET res == PulseWidthFrom(v)
        IN IF res.kind = "panic"
           THEN /\ pc' = "panicked"
                /\ ret' = RetPanic("PulseWidth::from")
                /\ UNCHANGED pulse_width
           ELSE /\ pulse_width' = res
                /\ UNCHANGED <<pc, ret>>
    /\ UNCHANGED <<regs, irq, int_pin_value, reads, busLog, snaps, debug_assertions,
                   codecVars, sessionVars, busResult, pinLog, cfg>>

\* the caller stores through DerefMut into the PulseWidth it holds: *p = v
CallerDerefMut ==
    /\ pc = "idle"
    /\ pulse_width.kind = "PulseWidth"
    /\ \E v \in PulseInputs : pulse_width' = DerefMutAssign(pulse_width, v)
    /\ UNCHANGED <<regs, irq, pc, int_pin_value, reads, busLog, ret, snaps,
                   debug_assertions, codecVars, sessionVars, busResult, pinLog, cfg>>

\* self.device.irq_pulse_width().write(..).unwrap(); the call returns ()
SetIrqPulseWidthOutcome(res) ==
    IF res.ok THEN RetOk("set_irq_pulse_width") ELSE RetPanic("set_irq_pulse_width")

\* set_irq_pulse_width(pulse_width): the PulseWidth is moved into the call
SetIrqPulseWidth ==
    /\ pc = "idle"
    /\ pulse_width.kind = "PulseWidth"
    /\ \E outcome \in BusOutcomes :
        LET byte == IrqPulseWidthEncode(pulse_width)
        IN /\ busResult' = outcome
           /\ cfg' = HwStore(cfg, IrqPulseWidth.address, <<byte>>, outcome)
           /\ ret' = SetIrqPulseWidthOutcome(
                         write_register(IrqPulseWidth.address, <<byte>>, outcome))
           /\ busLog' = WriteTransaction(IrqPulseWidth.address, <<byte>>)
    /\ pc' = IF ret'.kind = "panic" THEN "panicked" ELSE "idle"
    /\ pulse_width' = NoPulseWidth
    /\ pinLog' = <<>>
    /\ UNCHANGED <<regs, irq, int_pin_value, reads, snaps, debug_assertions, codecVars,
                   sessionVars>>

\* the transactions of an init_config that meets no failure
ConfigBatch ==
    WriteTransaction(IrqCtl.address, <<IrqCtlByte>>)
    \o WriteTransaction(MotionMask.address, <<MotionMaskByte>>)
    \o WriteTransaction(DisAutoSleep.address, <<DisAutoSleepByte>>)
    \o WriteTransaction(IrqPulseWidth.address,
                        <<IrqPulseWidthEncode(PulseWidthNew(1, debug_assertions))>>)
    \o WriteTransaction(NorScanPer.address, <<NorScanPerByte>>)

NextConfig ==
    \/ HwIrq
    \/ ResetSetHigh
    \/ ResetSetLow
    \/ ResetRelease
    \/ InitConfigIrqCtl
    \/ InitConfigMotionMask
    \/ InitConfigDisAutoSleep
    \/ InitConfigIrqPulseWidth
    \/ InitConfigNorScanPer
    \/ CallerPulseWidthNew
    \/ CallerPulseWidthFrom
    \/ CallerDerefMut
    \/ SetIrqPulseWidth
    \/ ReadChipIdCheckPin
    \/ ReadChipIdRead

SpecConfig == ConfigInit /\ [][NextConfig]_vars

-----------------------------------------------------------------------------
(* event() called again and again by a caller that remembers what it got   *)

\* how a completed event() ended, as its caller sees it
OutcomeKept ==
    IF ret.kind = "Some" THEN "event"
    ELSE IF int_pin_value = "High" THEN "idle"
    ELSE "failed"

\* between two calls the caller notes how the last event() ended
CallerKeeps ==
    /\ pc = "idle"
    /\ ret.op = "event"
    /\ kept' = OutcomeKept
    /\ UNCHANGED <<facadeVars, debug_assertions, codecVars, busResult, configVars,
                   device_address, configured>>

NextCalls ==
    \/ HwIrq
    \/ EventCheckPin
    \/ EventReadXpos
    \/ EventReadYpos
    \/ EventReadBpc0
    \/ EventReadBpc1
    \/ EventReadGesture
    \/ EventReturn
    \/ CallerKeeps

SpecCalls == Init /\ [][NextCalls]_vars

-----------------------------------------------------------------------------
(* Properties of the facade (checked under Spec)                           *)

\* the last call that completed was event(), and it either returned or panicked
EventDone == pc \in {"idle", "panicked"} /\ ret.op = "event"

\* C1: event() called with the interrupt line high returns None and issues no
\* bus transaction; no read of event() is ever reached with the line seen high.
EventIdleWhenInterruptHigh ==
    /\ (EventDone /\ int_pin_value = "High") =>
          (pc = "idle" /\ ret = RetNone("event") /\ busLog = <<>>)
    /\ InEvent => int_pin_value = "Low"

EventIdleWhenInterruptHighWitness ==
    /\ pc = "idle"
    /\ ret = RetNone("event")
    /\ int_pin_value = "High"
    /\ busLog = <<>>
    /\ regs[GestureId.address] = 12

\* C2: event() called with the interrupt line low, all reads succeeding and a
\* declared gesture code returns Some(TouchEvent) with X = ((byte at 0x03 & 0x0F)
\* << 8) | byte at 0x04, Y = ((byte at 0x05 & 0x0F) << 8) | byte at 0x06 and the
\* gesture decoded from the byte at 0x01 (s: the registers held during the call).
EventReturnsDecodedSample ==
    \A s \in snaps :
        (/\ EventDone
         /\ int_pin_value = "Low"
         /\ Failures(reads) = 0
         /\ snaps = {s}
         /\ s[1] \in {0, 1, 2, 3, 4, 5, 11, 12})
        => /\ pc = "idle"
           /\ ret.kind = "Some"
           /\ ret.point = <<(s[3] % 16) * 256 + s[4], (s[5] % 16) * 256 + s[6]>>
           /\ ret.gesture = GestureTryFrom(s[1]).variant

EventReturnsDecodedSampleWitness ==
    /\ EventDone
    /\ int_pin_value = "Low"
    /\ Cardinality(snaps) = 1
    /\ ret.kind = "Some"
    /\ ret.point = <<767, 3968>>
    /\ ret.gesture = "LongPress"

\* C3: event() called with the interrupt line low returns None when a required
\* read failed with a transport error, whichever read it was: no partial event,
\* no abort.
EventNoneOnFailedRead ==
    (EventDone /\ int_pin_value = "Low" /\ Failures(reads) >= 1) =>
        (pc = "idle" /\ ret = RetNone("event"))

EventNoneOnFailedReadWitness ==
    /\ pc = "idle"
    /\ ret = RetNone("event")
    /\ int_pin_value = "Low"
    /\ reads.x.ok /\ reads.y.ok /\ reads.b0.ok /\ reads.b1.ok
    /\ reads.gesture = Err(DeviceError("NoAcknowledge"))

\* C4 (as claimed): event() called with the interrupt line low, all reads
\* succeeding and a gesture byte that is no declared code returns None.
EventFoldsUndeclaredGesture ==
    (/\ EventDone
     /\ int_pin_value = "Low"
     /\ Failures(reads) = 0
     /\ reads.gesture.value \notin GestureCodes)
    => (pc = "idle" /\ ret = RetNone("event"))

\* C5 (as claimed): X, Y and gesture of every TouchEvent event() returns belong
\* to one single register snapshot the hardware held during the call.
EventFromOneSnapshot ==
    (EventDone /\ ret.kind = "Some") =>
        \E s \in snaps :
            /\ ret.point = <<SnapX(s), SnapY(s)>>
            /\ GestureTryFrom(SnapGesture(s)).ok
            /\ ret.gesture = GestureTryFrom(SnapGesture(s)).variant

\* C5 (amended): a torn sample is surfaced, not dropped: each of X, Y and the
\* gesture of a returned TouchEvent is that of a register snapshot the hardware
\* held during the call, and the three belong to one snapshot when the hardware
\* did not update its registers during the call.
EventFieldsFromSnapshots ==
    (EventDone /\ ret.kind = "Some") =>
        /\ \E s \in snaps : ret.point[1] = SnapX(s)
        /\ \E s \in snaps : ret.point[2] = SnapY(s)
        /\ \E s \in snaps :
              /\ GestureTryFrom(SnapGesture(s)).ok
              /\ ret.gesture = GestureTryFrom(SnapGesture(s)).variant
        /\ \A s \in snaps :
              snaps = {s} =>
                  /\ ret.point = <<SnapX(s), SnapY(s)>>
                  /\ ret.gesture = GestureTryFrom(SnapGesture(s)).variant

\* a torn TouchEvent: X of one snapshot, Y of another
EventFieldsFromSnapshotsWitness ==
    /\ EventDone
    /\ ret.kind = "Some"
    /\ Cardinality(snaps) = 2
    /\ \A s \in snaps : ret.point # <<SnapX(s), SnapY(s)>>

\* C6: read_chip_id with the interrupt line low issues exactly one bus read, of
\* the one byte at 0xA7, and returns Some of the byte the register holds; with
\* the line high it returns None without any bus access.
ReadChipIdGated ==
    /\ (ret.op = "read_chip_id" /\ int_pin_value = "High") =>
          (pc = "idle" /\ ret = RetNone("read_chip_id") /\ busLog = <<>>)
    /\ (pc = "idle" /\ ret.op = "read_chip_id" /\ int_pin_value = "Low") =>
          /\ ret = RetSomeU8("read_chip_id", regs[167])
          /\ busLog = <<[kind |-> "write_read", address |-> 167, len |-> 1]>>
    /\ (pc = "panicked" /\ ret.op = "read_chip_id") => Len(busLog) = 1
    /\ pc = "chip_id" => (int_pin_value = "Low" /\ busLog = <<>>)

ReadChipIdGatedWitness ==
    /\ pc = "idle"
    /\ ret = RetSomeU8("read_chip_id", 35)
    /\ int_pin_value = "Low"
    /\ Len(busLog) = 1

\* C10: reading Xpos (Ypos) is one bus read of two bytes at 0x03 (0x05), and its
\* value is (high nibble << 8) | low byte of the two bytes the hardware holds
\* there, the byte at the lower address being the high one.
CompositeReadOneTransaction ==
    [][/\ (pc = "xpos" /\ pc' = "ypos") =>
            /\ busLog' = <<[kind |-> "write_read", address |-> 3, len |-> 2]>>
            /\ reads'.x.ok => reads'.x.value = (regs[3] % 16) * 256 + regs[4]
       /\ (pc = "ypos" /\ pc' = "bpc0") =>
            /\ busLog' = Append(busLog, [kind |-> "write_read", address |-> 5, len |-> 2])
            /\ Len(busLog') = 2
            /\ reads'.y.ok => reads'.y.value = (regs[5] % 16) * 256 + regs[6]
      ]_vars

\* the test vector of tests::read_xpos: [0x01, 0x02] read as 0x0102
CompositeReadOneTransactionWitness ==
    /\ pc = "ypos"
    /\ reads.x = Ok(258)
    /\ busLog = <<[kind |-> "write_read", address |-> 3, len |-> 2]>>
    /\ snaps = {regs}
    /\ regs[3] = 1 /\ regs[4] = 2

\* C18: every typed read of the facade issues one bus read, and what it returns
\* is the field of the bytes the hardware holds at that very transaction: a
\* register the hardware changed before the read is read with its new value.
ReadsReflectHardware ==
    [][/\ \A f \in {"x", "y", "gesture"} :
            (reads'[f] # reads[f] /\ reads'[f].ok) =>
                /\ Len(busLog') = Len(busLog) + 1
                /\ busLog'[Len(busLog')].kind = "write_read"
                /\ reads'[f].value =
                       CASE f = "x" -> SnapX(regs)
                         [] f = "y" -> SnapY(regs)
                         [] f = "gesture" -> SnapGesture(regs)
       /\ (pc = "chip_id" /\ pc' # pc) =>
            /\ busLog' = <<[kind |-> "write_read", address |-> 167, len |-> 1]>>
            /\ ret'.kind = "Some" => ret'.value = regs[167]
      ]_vars

\* the hardware moved to another sample after the call had begun and before X
\* was read: the read returned the new X, not the one held when the call began
ReadsReflectHardwareWitness ==
    /\ pc = "ypos"
    /\ reads.x.ok
    /\ Cardinality(snaps) = 2
    /\ reads.x.value = SnapX(regs)
    /\ \E old \in snaps : SnapX(old) # reads.x.value

\* C19: both coordinates of every TouchEvent that event() returns lie within
\* 0..4095, also when the high position bytes have their upper four bits set.
EventPointWithin12Bits ==
    (ret.op = "event" /\ ret.kind = "Some") =>
        /\ ret.point[1] \in 0..4095
        /\ ret.point[2] \in 0..4095

\* an event returned from position bytes F2 FF / 9F 80: the point is (0x2FF, 0xF80)
EventPointWithin12BitsWitness ==
    /\ ret.op = "event"
    /\ ret.kind = "Some"
    /\ snaps = {regs}
    /\ regs[XposH.address] = 242 /\ regs[XposL.address] = 255
    /\ regs[YposH.address] = 159 /\ regs[YposL.address] = 128
    /\ ret.point = <<767, 3968>>

\* C21: with the interrupt line asserted, event() issues its reads in the order
\* X position, Y position, gesture code, BPC0, BPC1, each a bus read of its own.
EventReadsInSpecifiedOrder ==
    (InEvent \/ ret.op = "event") =>
        \E n \in 0..5 :
            busLog = SubSeq(<<[kind |-> "write_read", address |-> 3, len |-> 2],
                              [kind |-> "write_read", address |-> 5, len |-> 2],
                              [kind |-> "write_read", address |-> 1, len |-> 1],
                              [kind |-> "write_read", address |-> 176, len |-> 2],
                              [kind |-> "write_read", address |-> 178, len |-> 2]>>, 1, n)

\* C26: the hardware may change its registers between any two bus transactions
\* of a call, yet the high nibble and the low byte of the X of a returned
\* TouchEvent come from one and the same register state held during the call,
\* and so do those of its Y.
EventCoordinateNotTorn ==
    (EventDone /\ ret.kind = "Some") =>
        /\ \E s \in snaps :
              /\ ret.point[1] \div 256 = s[XposH.address] % 16
              /\ ret.point[1] % 256 = s[XposL.address]
        /\ \E s \in snaps :
              /\ ret.point[2] \div 256 = s[YposH.address] % 16
              /\ ret.point[2] % 256 = s[YposL.address]

\* an event returned by a call during which the hardware moved between two
\* samples that differ in all four position bytes
EventCoordinateNotTornWitness ==
    /\ EventDone
    /\ ret.kind = "Some"
    /\ \E s, t \in snaps :
          /\ s[XposH.address] % 16 # t[XposH.address] % 16
          /\ s[XposL.address] # t[XposL.address]
          /\ s[YposH.address] % 16 # t[YposH.address] % 16
          /\ s[YposL.address] # t[YposL.address]

\* C27: an event() that saw the interrupt line low issues exactly five bus
\* reads, X, Y, BPC0, BPC1 and gesture, before it decides, also when one of them
\* failed: a failed read does not keep the later ones from being made.
EventAlwaysFiveReads ==
    ((EventDone \/ pc = "aggregate") /\ int_pin_value = "Low") =>
        /\ busLog = <<[kind |-> "write_read", address |-> 3, len |-> 2],
                      [kind |-> "write_read", address |-> 5, len |-> 2],
                      [kind |-> "write_read", address |-> 176, len |-> 2],
                      [kind |-> "write_read", address |-> 178, len |-> 2],
                      [kind |-> "write_read", address |-> 1, len |-> 1]>>
        /\ \A f \in DOMAIN reads : reads[f] # NotRead

\* the first read failed, the four after it were made, and None was returned
EventAlwaysFiveReadsWitness ==
    /\ EventDone
    /\ int_pin_value = "Low"
    /\ reads.x.err.wrapper = "DeviceError"
    /\ reads.y.ok /\ reads.b0.ok /\ reads.b1.ok /\ reads.gesture.ok
    /\ Len(busLog) = 5
    /\ ret = RetNone("event")

-----------------------------------------------------------------------------
(* Properties of repeated sampling (checked under SpecCalls)               *)

\* C25: whatever earlier calls gave (an event, nothing with the line idle, or
\* nothing after a failed read), an event() made with the line low, every bus
\* read succeeding and a declared gesture code returns an event, and what any
\* completed call returns is given by the line level it saw and the Results it
\* read itself.
EventOutcomeFromThisCallOnly ==
    (ret.op = "event" /\ pc = "idle") =>
        IF int_pin_value = "High" THEN ret = RetNone("event") /\ reads = NoReads
        ELSE IF \E f \in DOMAIN reads : ~reads[f].ok THEN ret = RetNone("event")
        ELSE /\ reads.gesture.value \in {0, 1, 2, 3, 4, 5, 11, 12}
             /\ ret = RetSomeEvent(<<reads.x.value, reads.y.value>>, reads.b0.value,
                                   reads.b1.value, GestureVariant(reads.gesture.value))

\* an event returned by a call that followed one lost to a failed read
EventOutcomeFromThisCallOnlyWitness ==
    /\ kept = "failed"
    /\ ret.op = "event"
    /\ pc = "idle"
    /\ ret.kind = "Some"
    /\ int_pin_value = "Low"
    /\ Len(busLog) = 5

-----------------------------------------------------------------------------
(* Properties of the conversions (checked under SpecCodec)                 *)

\* C7 (as claimed): for every 8-bit input outside [1,200], neither
\* PulseWidth::new nor From<u8> produces a PulseWidth.
PulseWidthRejectsOutOfRange ==
    (cop \in {"new", "from"} /\ cin \notin 1..200) => cout.kind # "PulseWidth"

\* C8: for every v in [1,200] both constructors produce a PulseWidth of value v,
\* the byte stored for it in the IRQ pulse width register is v, and decoding
\* that byte yields a PulseWidth of value v again.
PulseWidthRoundTrip ==
    cin \in 1..200 =>
        /\ cop \in {"new", "from"} => cout = [kind |-> "PulseWidth", value |-> cin]
        /\ cop = "encoded" => cout = [kind |-> "byte", value |-> cin]
        /\ cop = "decoded" => cout = [kind |-> "PulseWidth", value |-> cin]

PulseWidthRoundTripWitness ==
    /\ cop = "decoded"
    /\ cin = 200
    /\ cout = [kind |-> "PulseWidth", value |-> 200]

\* C29: a typed read of the IRQ pulse width register whose bus read succeeded
\* completes for every byte the controller may hold, and what it yields is a
\* PulseWidth in [1,200] or an error value, never a panic.
PulseWidthReadNeverAborts ==
    cop = "read_pulse_width" =>
        /\ cout.kind # "panic"
        /\ cout.kind = "PulseWidth" => cout.value \in 1..200

\* C9: decoding the gesture byte is exact over all 256 bytes: the eight declared
\* codes give their variants, every other byte is a conversion error.
GestureDecodeExact ==
    cop = "gesture" =>
        cout.kind = CASE cin = 0 -> "NoGesture"
                      [] cin = 1 -> "SlideUp"
                      [] cin = 2 -> "SlideDown"
                      [] cin = 3 -> "SlideLeft"
                      [] cin = 4 -> "SlideRight"
                      [] cin = 5 -> "SingleClick"
                      [] cin = 11 -> "DoubleClick"
                      [] cin = 12 -> "LongPress"
                      [] OTHER -> "ConversionError"

GestureDecodeExactWitness ==
    /\ cop = "gesture"
    /\ cin = 13
    /\ cout.kind = "ConversionError"

-----------------------------------------------------------------------------
(* Properties of the position registers (checked under SpecPair)           *)

\* C11: for every pair of bytes (h, l) at two adjacent position addresses, the
\* high single-byte register reads as bits 8..11 of the composite value and the
\* low single-byte register as its bits 0..7 (and the composite has no other bit).
CompositeAgreesWithHalves ==
    cop \in {"xpos", "ypos"} =>
        /\ cout.value[1] = (cout.value[3] \div 256) % 16
        /\ cout.value[2] = cout.value[3] % 256
        /\ cout.value[3] = cout.value[1] * 256 + cout.value[2]
        /\ cout.value[2] = cin2
        /\ cout.value[1] = cin % 16

\* the test vector of tests::read_xpos, and a high byte with its upper bits set
CompositeAgreesWithHalvesWitness ==
    \/ cop = "xpos" /\ cin = 1 /\ cin2 = 2 /\ cout.value = <<1, 2, 258>>
    \/ cop = "ypos" /\ cin = 242 /\ cin2 = 255 /\ cout.value = <<2, 255, 767>>

-----------------------------------------------------------------------------
(* Properties of reset, init_config and set_irq_pulse_width (SpecConfig)   *)

\* time the reset pin stays at the level set by entry i of a pin log: the
\* delays that follow it up to the next pin write
RECURSIVE HeldAfter(_, _)
HeldAfter(log, i) ==
    IF i + 1 > Len(log) \/ log[i + 1].op # "delay_ms" THEN 0
    ELSE log[i + 1].ms + HeldAfter(log, i + 1)

ResetDone == ret.op = "reset" /\ ret.kind = "Ok" /\ pc = "idle"

\* C12: a reset() that returned Ok drove the reset pin low, held it low for at
\* least 20 ms before driving it high, and then held it high for at least 50 ms.
ResetPulseHeld ==
    ResetDone =>
        \E i, j \in DOMAIN pinLog :
            /\ i < j
            /\ pinLog[i].op = "set_low"
            /\ pinLog[j].op = "set_high"
            /\ \A k \in (i + 1)..(j - 1) : pinLog[k].op = "delay_ms"
            /\ HeldAfter(pinLog, i) >= 20
            /\ \A k \in (j + 1)..Len(pinLog) : pinLog[k].op = "delay_ms"
            /\ HeldAfter(pinLog, j) >= 50

ResetReturned == ret.op = "reset" /\ pc = "idle"

\* C28: a reset() that returned Ok made every pin write successfully and the
\* last level it drove is high; a reset() in which a pin write failed returned
\* that pin's error with the failed write as its last operation, no pin write
\* and no delay after it. reset() makes no bus transaction in either case.
ResetEndsHighOrAtFailure ==
    ResetReturned =>
        /\ busLog = <<>>
        /\ ret.kind \in {"Ok", "Err"}
        /\ ret.kind = "Ok" =>
              /\ \A i \in DOMAIN pinLog : pinLog[i].ok
              /\ \E i \in DOMAIN pinLog :
                    /\ pinLog[i].op = "set_high"
                    /\ \A k \in (i + 1)..Len(pinLog) : pinLog[k].op = "delay_ms"
        /\ ret.kind = "Err" =>
              /\ pinLog # <<>>
              /\ ~pinLog[Len(pinLog)].ok
              /\ pinLog[Len(pinLog)].op \in {"set_high", "set_low"}
              /\ \A i \in 1..(Len(pinLog) - 1) : pinLog[i].ok
              /\ ret.err = PinError("PinError")

\* the second pin write, set_low, failed: it is the third and last entry
ResetEndsHighOrAtFailureWitness ==
    /\ ResetReturned
    /\ ret.kind = "Err"
    /\ Len(pinLog) = 3
    /\ pinLog[3] = PinSet("set_low", "PinError")

InitConfigDone == ret.op = "init_config" /\ pc = "idle"

\* C13: an init_config whose write n is the first to fail returns that write's
\* error; writes 1..n-1 were issued and the controller keeps their bytes, and no
\* write after n was issued. With no failure all five bytes are stored.
InitConfigAbortsAtFirstFailure ==
    InitConfigDone =>
        IF busResult = "ok"
        THEN /\ ret = RetOk("init_config")
             /\ busLog = ConfigBatch
             /\ \A k \in DOMAIN ConfigBatch :
                    cfg[ConfigBatch[k].address] = ConfigBatch[k].data[1]
        ELSE /\ busResult \in BusErrors
             /\ ret = RetErr("init_config", DeviceError(busResult))
             /\ \E n \in DOMAIN ConfigBatch :
                    /\ busLog = SubSeq(ConfigBatch, 1, n)
                    /\ \A k \in 1..(n - 1) :
                           cfg[ConfigBatch[k].address] = ConfigBatch[k].data[1]

\* the third write failed on a controller never configured before: the first two
\* bytes are stored, the last three registers keep their reset values
InitConfigAbortsAtFirstFailureWitness ==
    /\ InitConfigDone
    /\ ret.kind = "Err"
    /\ Len(busLog) = 3
    /\ cfg[IrqCtl.address] = 113
    /\ cfg[MotionMask.address] = 7
    /\ cfg[DisAutoSleep.address] = DisAutoSleep.reset
    /\ cfg[NorScanPer.address] = NorScanPer.reset
    /\ cfg[IrqPulseWidth.address] = IrqPulseWidthReset

\* the steps of SpecConfig that are one typed register access
RegisterAccess ==
    \/ InitConfigIrqCtl
    \/ InitConfigMotionMask
    \/ InitConfigDisAutoSleep
    \/ InitConfigIrqPulseWidth
    \/ InitConfigNorScanPer
    \/ SetIrqPulseWidth
    \/ ReadChipIdRead

\* C14: every typed register access puts exactly one transaction on the bus, an
\* address write followed by the data write (write) or by the data read (read),
\* whether the transport reports success or an error: nothing is retried.
OneTransactionPerAccess ==
    [][RegisterAccess =>
          LET before == IF pc = "idle" THEN <<>> ELSE busLog
          IN /\ Len(busLog') = Len(before) + 1
             /\ SubSeq(busLog', 1, Len(before)) = before
             /\ busLog'[Len(busLog')].kind \in {"transaction", "write_read"}
             /\ busLog'[Len(busLog')].kind = "write_read" <=> ReadChipIdRead
             /\ busResult' \in BusOutcomes]_vars

\* a failed write, and a failed read, each left one transaction and no more
OneTransactionPerAccessWitness ==
    /\ busResult \in BusErrors
    /\ Len(busLog) = 1
    /\ \/ ret.op = "set_irq_pulse_width" /\ busLog[1].kind = "transaction"
       \/ ret.op = "read_chip_id" /\ busLog[1].kind = "write_read"

\* C16: when the bus fails during set_irq_pulse_width, or during read_chip_id
\* with the interrupt line asserted, the call ends by handing that transport
\* error to its caller.
TransportFailurePropagated ==
    (ret.op \in {"set_irq_pulse_width", "read_chip_id"} /\ busResult \in BusErrors) =>
        /\ ret.kind = "Err"
        /\ ret.err.inner = busResult
        /\ pc = "idle"

\* C17: in every sequence of facade calls, each bus write to the IRQ pulse width
\* register (0xED) carries a data byte within 1..200.
PulseWidthWritesInRange ==
    \A i \in DOMAIN busLog :
        (busLog[i].kind = "transaction" /\ busLog[i].address = IrqPulseWidth.address) =>
            busLog[i].data[1] \in 1..200

\* C24: an init_config that returned Ok issued exactly five register writes, to
\* 0xFA, 0xEC, 0xFE, 0xED and 0xEE in this order, one byte each: 0x71 to IRQ
\* control, 0x07 to the motion mask, and a pulse width within 1..200.
InitConfigFiveWrites ==
    (ret = RetOk("init_config") /\ pc = "idle") =>
        /\ Len(busLog) = 5
        /\ \A k \in 1..5 :
               /\ busLog[k].kind = "transaction"
               /\ busLog[k].len = 1
               /\ Len(busLog[k].data) = 1
               /\ busLog[k].address = <<250, 236, 254, 237, 238>>[k]
        /\ busLog[1].data = <<113>>
        /\ busLog[2].data = <<7>>
        /\ busLog[4].data[1] \in 1..200

\* a completed init_config on a controller that now holds the five bytes
InitConfigFiveWritesWitness ==
    /\ ret = RetOk("init_config")
    /\ pc = "idle"
    /\ Len(busLog) = 5
    /\ busResult = "ok"
    /\ cfg[250] = 113 /\ cfg[236] = 7 /\ cfg[254] = 254 /\ cfg[237] = 1 /\ cfg[238] = 1

-----------------------------------------------------------------------------
(* Properties of the register access layer (checked under SpecDevice)      *)

Accessed == cop \in {"read", "write", "write_flags"}

\* C15: a typed read or write whose bus transaction failed with e returns
\* Err(DeviceError(e)), for every e; one that succeeded returns Ok.
TransportErrorWrapped ==
    Accessed =>
        IF cout.value.outcome = "ok"
        THEN cout.value.result.ok /\ cout.value.result.err = NoError
        ELSE /\ ~cout.value.result.ok
             /\ cout.value.result.err.wrapper = "DeviceError"
             /\ cout.value.result.err.inner = cout.value.outcome

\* a read and a write that failed, each with the second bus error
TransportErrorWrappedWitness ==
    /\ Accessed
    /\ cout.value.outcome = "ArbitrationLoss"
    /\ cout.value.result.err.inner = "ArbitrationLoss"
    /\ \/ cop = "read" /\ cout.value.name = "Xpos"
       \/ cop = "write" /\ cout.value.name = "IrqPulseWidth"

\* C20: every typed access goes to the address the fixed address map gives
\* its register; the registers the map marks read-only are never written; a
\* write that sets nothing sends the map's reset value (deep-sleep 0x03, IRQ
\* pulse width 10, normal scan period 1); a composite position read is one
\* 16-bit big-endian read whose value is its bits 0..11.
TableMatchesAddressMap ==
    LET AddressMap ==
            [GestureId |-> 1, FingerNum |-> 2, XposH |-> 3, XposL |-> 4, Xpos |-> 3,
             YposH |-> 5, YposL |-> 6, Ypos |-> 5, BPC0H |-> 176, BPC0L |-> 177,
             BPC1H |-> 178, BPC1L |-> 179, ChipId |-> 167, ProjId |-> 168,
             FwVersion |-> 169, DeepSleep |-> 229, MotionMask |-> 236,
             IrqPulseWidth |-> 237, NorScanPer |-> 238, IrqCtl |-> 250, IOCtl |-> 253,
             DisAutoSleep |-> 254]
        ReadOnly == {"GestureId", "FingerNum", "XposH", "XposL", "Xpos", "YposH",
                     "YposL", "Ypos", "BPC0H", "BPC0L", "BPC1H", "BPC1L", "ChipId",
                     "ProjId", "FwVersion"}
        ResetMap == [DeepSleep |-> 3, IrqPulseWidth |-> 10, NorScanPer |-> 1]
        a == cout.value
    IN Accessed =>
        /\ a.name \in DOMAIN AddressMap => a.log[1].address = AddressMap[a.name]
        /\ cop = "write" => a.name \notin ReadOnly
        /\ Len(a.log) = 1
        /\ (cop = "write" /\ a.name \in DOMAIN ResetMap) =>
               a.sent \in {<<ResetMap[a.name]>>, <<cin>>}
        /\ (cop = "read" /\ a.name \in {"Xpos", "Ypos"}) =>
               /\ a.log[1].len = 2
               /\ a.result.ok => a.field = (cin * 256 + cin2) % 4096
        /\ (cop = "read" /\ a.name \notin {"Xpos", "Ypos"}) => a.log[1].len = 1

\* a deep-sleep write that sets nothing sent 0x03 to 0xE5, and a Ypos read of
\* F2 FF at 0x05 gave 0x2FF
TableMatchesAddressMapWitness ==
    /\ Accessed
    /\ \/ /\ cop = "write"
          /\ cout.value.name = "DeepSleep"
          /\ cout.value.sent = <<3>>
          /\ cin # 3
          /\ cout.value.log[1].address = 229
       \/ /\ cop = "read"
          /\ cout.value.name = "Ypos"
          /\ cin = 242 /\ cin2 = 255
          /\ cout.value.field = 767
          /\ cout.value.log[1].address = 5

\* C22: a typed read of any declared register is one bus read, to the device
\* address the session was constructed with, of ceil(bit width / 8) bytes from
\* the register's address (1 byte for 2-, 3- and 8-bit registers, 2 for the
\* 16-bit composites), and two bytes are taken big-endian.
TypedReadShape ==
    cop = "read" =>
        LET a == cout.value
            reg == RegisterTable[a.name]
            raw == IF reg.size_bits = 16 THEN cin * 256 + cin2 ELSE cin
        IN /\ Len(a.log) = 1
           /\ a.log[1].kind = "write_read"
           /\ a.device = device_address
           /\ a.log[1].address = reg.address
           /\ reg.size_bits \in {2, 3, 8, 16}
           /\ a.log[1].len = IF reg.size_bits = 16 THEN 2 ELSE 1
           /\ a.result.ok => a.field = (raw \div (2 ^ reg.lo)) % (2 ^ (reg.hi - reg.lo))

\* the reads of the tests at 0x15, with other bytes: Xpos of 0x01 0x02 is 0x0102,
\* and a 3-bit register read as one byte
TypedReadShapeWitness ==
    /\ cop = "read"
    /\ device_address = 21
    /\ cout.value.result.ok
    /\ \/ /\ cout.value.name = "Xpos"
          /\ cin = 1 /\ cin2 = 2
          /\ cout.value.field = 258
          /\ cout.value.log = <<[kind |-> "write_read", address |-> 3, len |-> 2]>>
       \/ /\ cout.value.name = "LpAutoWakeTime"
          /\ cin = 255
          /\ cout.value.field = 7
          /\ cout.value.log = <<[kind |-> "write_read", address |-> 244, len |-> 1]>>

\* bit b of a byte
BitOfByte(byte, b) == (byte \div (2 ^ b)) % 2

\* C23: a write to a flag register is one write transaction and nothing before
\* it, carrying one byte in which every declared flag the caller set to true is
\* 1 and every other bit is 0: bits 1..3 of IrqCtl, bits 3..7 of MotionMask and
\* of IOCtl are always 0.
FlagWriteCompleteByte ==
    cop = "write_flags" =>
        LET a == cout.value
            byte == a.sent[1]
            Declared == [IrqCtl |-> [OnceWLP |-> 0, EnMotion |-> 4, EnChange |-> 5,
                                     EnTouch |-> 6, EnTest |-> 7],
                         MotionMask |-> [EnDClick |-> 0, EnConUD |-> 1, EnConLR |-> 2],
                         IOCtl |-> [En1v8 |-> 0, IIC_OD |-> 1, SOFT_RST |-> 2]]
        IN /\ a.log = <<[kind |-> "transaction", address |-> a.log[1].address,
                         len |-> 1, data |-> <<byte>>]>>
           /\ byte \in 0..255
           /\ a.name = "IrqCtl" => \A b \in 1..3 : BitOfByte(byte, b) = 0
           /\ a.name \in {"MotionMask", "IOCtl"} => \A b \in 3..7 : BitOfByte(byte, b) = 0
           /\ \A f \in DOMAIN Declared[a.name] :
                  BitOfByte(byte, Declared[a.name][f]) = IF f \in a.field THEN 1 ELSE 0

\* the two flag writes of init_config (0x71 to 0xFA, 0x07 to 0xEC), and every
\* flag of IrqCtl set
FlagWriteCompleteByteWitness ==
    /\ cop = "write_flags"
    /\ \/ /\ cout.value.name = "IrqCtl"
          /\ cout.value.field = {"OnceWLP", "EnMotion", "EnChange", "EnTouch"}
          /\ cout.value.sent = <<113>>
       \/ /\ cout.value.name = "MotionMask"
          /\ cout.value.field = {"EnDClick", "EnConUD", "EnConLR"}
          /\ cout.value.sent = <<7>>
       \/ /\ cout.value.name = "IrqCtl"
          /\ Cardinality(cout.value.field) = 5
          /\ cout.value.sent = <<241>>

\* C30: the configuration registers hold the same contents after the second
\* (and every later) init_config that returned Ok as after the first one,
\* whatever they held at the start and whatever was written or failed between.
InitConfigIdempotent ==
    /\ Len(configured) = 2 => configured[2] = configured[1]
    /\ (InitConfigDone /\ ret.kind = "Ok") => cfg = configured[Len(configured)]

\* at least two calls have returned Ok, the latest one while the caller holds a
\* PulseWidth of 200, and the registers hold the five bytes of the batch
InitConfigIdempotentWitness ==
    /\ InitConfigDone
    /\ ret.kind = "Ok"
    /\ Len(configured) = 2
    /\ pulse_width = PwOk(200)
    /\ cfg = [a \in ConfigAddrs |->
                CASE a = IrqCtl.address -> 113
                  [] a = MotionMask.address -> 7
                  [] a = DisAutoSleep.address -> 254
                  [] a = IrqPulseWidth.address -> 1
                  [] a = NorScanPer.address -> 1]

====
